---------------------------- MODULE Spec2Model ----------------------------
(***************************************************************************)
(* State-machine model of src/server.js (CLOOFY one-file business system): *)
(* the four SQLite tables, POST /api/sales and                             *)
(* POST /api/ingredients/:id/adjust.  Every request handler is an async    *)
(* function; it is modelled as a process that takes one atomic step per    *)
(* awaited storage operation (getAsync / runAsync), which is the only      *)
(* place where Node's single-threaded event loop can switch to another     *)
(* request.                                                                *)
(*                                                                         *)
(* current_stock is a REAL column and a JavaScript number (IEEE-754        *)
(* binary64): the model keeps it as such a number and computes + - < on    *)
(* it with the rounding of the code.  qty, change, price and the recipe    *)
(* quantities are drawn from small integers, for which * is exact.         *)
(* Template strings are modelled as sequences of their parts.              *)
(***************************************************************************)
EXTENDS Integers, Sequences, FiniteSets, TLC

\* ------------------------------------------------------------------ bounds
\* How many requests are issued in one behaviour.
MaxRequests == 2
\* How many requests can be in flight (suspended at an await) at once.
NumSlots == 2

Slots == 1..NumSlots

\* ------------------------------------------------------- JavaScript numbers
\* A JavaScript number is an IEEE-754 binary64 value.  The model keeps a
\* number as a record: an integer of magnitude below SmallInt is kept as
\* the TLA+ integer n (int = TRUE); any other value is kept as
\* (-1)^neg * sig * 2^exp, where sig is its 53-bit significand, a sequence
\* of bits with the least significant bit first.  Infinities, NaN, -0 and
\* subnormal numbers are outside the values the model uses.
Precision == 53
SmallIntBits == 30
SmallInt == 2 ^ SmallIntBits

\* The number n, an integer of magnitude below SmallInt.
I(n) == [int |-> TRUE, n |-> n, neg |-> FALSE, exp |-> 0, sig |-> << >>]

\* Bit j of the bit sequence b (0 beyond its length).
Bit(b, j) == IF j <= Len(b) THEN b[j] ELSE 0

\* b without its leading (most significant) zero bits.
Trim(b) ==
  IF \A j \in 1..Len(b) : b[j] = 0 THEN << >>
  ELSE SubSeq(b, 1, CHOOSE m \in 1..Len(b) :
                      b[m] = 1 /\ \A k \in (m + 1)..Len(b) : b[k] = 0)

\* A natural number below SmallInt as bits, least significant first, and
\* back.
NatBits(n) == Trim([j \in 1..SmallIntBits |-> (n \div (2 ^ (j - 1))) % 2])

RECURSIVE NatVal(_)
NatVal(b) == IF b = << >> THEN 0 ELSE Head(b) + 2 * NatVal(Tail(b))

Zeros(k) == [j \in 1..k |-> 0]

\* b * 2^k
ShiftLeft(b, k) == IF b = << >> THEN << >> ELSE Zeros(k) \o b

Longer(a, b) == IF Len(a) < Len(b) THEN Len(b) ELSE Len(a)

\* The carry into bit j of a + b: the nearest lower position where both
\* operands have the same bit has a one.
CarryIn(a, b, j) ==
  \E d \in 1..(j - 1) : /\ Bit(a, j - d) = 1
                        /\ Bit(b, j - d) = 1
                        /\ \A e \in 1..(d - 1) : Bit(a, j - e) # Bit(b, j - e)

\* a + b on bit sequences.
NatAdd(a, b) ==
  Trim([j \in 1..(Longer(a, b) + 1) |->
          (Bit(a, j) + Bit(b, j) + (IF CarryIn(a, b, j) THEN 1 ELSE 0)) % 2])

\* The borrow from bit j of a - b: the nearest lower position where the
\* operands differ has the one in b.
BorrowIn(a, b, j) ==
  \E d \in 1..(j - 1) : /\ Bit(a, j - d) < Bit(b, j - d)
                        /\ \A e \in 1..(d - 1) : Bit(a, j - e) = Bit(b, j - e)

\* a - b on bit sequences, for a >= b.
NatSub(a, b) ==
  Trim([j \in 1..Len(a) |->
          (2 + Bit(a, j) - Bit(b, j) - (IF BorrowIn(a, b, j) THEN 1 ELSE 0)) % 2])

\* a < b for bit sequences: the most significant position where they differ
\* has the one in b.
NatLess(a, b) ==
  \E j \in 1..Longer(a, b) : /\ Bit(a, j) < Bit(b, j)
                             /\ \A k \in (j + 1)..Longer(a, b) : Bit(a, k) = Bit(b, k)

\* A number as an exact dyadic rational (-1)^neg * nat * 2^exp.
Dyadic(neg, nat, exp) == [neg |-> neg, nat |-> nat, exp |-> exp]

ToDyadic(x) ==
  IF x.int THEN Dyadic(x.n < 0, NatBits(IF x.n < 0 THEN -x.n ELSE x.n), 0)
           ELSE Dyadic(x.neg, x.sig, x.exp)

\* The exact sum of two dyadic rationals.
ExactSum(x, y) ==
  LET e == IF x.exp < y.exp THEN x.exp ELSE y.exp
      a == ShiftLeft(x.nat, x.exp - e)
      b == ShiftLeft(y.nat, y.exp - e)
  IN  IF x.neg = y.neg THEN Dyadic(x.neg, NatAdd(a, b), e)
      ELSE IF NatLess(a, b) THEN Dyadic(y.neg, NatSub(b, a), e)
      ELSE LET d == NatSub(a, b)
           IN  Dyadic(x.neg /\ d # << >>, d, e)

\* Round to nearest, ties to even: a dyadic rational whose nat has more than
\* Precision bits loses its low bits.
RoundToPrecision(x) ==
  IF Len(x.nat) <= Precision THEN x
  ELSE LET d == Len(x.nat) - Precision
           kept == SubSeq(x.nat, d + 1, Len(x.nat))
           low == SubSeq(x.nat, 1, d)
           up == /\ low[d] = 1
                 /\ \/ kept[1] = 1
                    \/ \E j \in 1..(d - 1) : low[j] = 1
       IN  Dyadic(x.neg, IF up THEN NatAdd(kept, <<1>>) ELSE kept, x.exp + d)

\* The integer part of nat * 2^exp and whether nat * 2^exp is an integer.
IsInteger(x) ==
  x.exp >= 0 \/ (-x.exp < Len(x.nat) /\ \A j \in 1..(-x.exp) : x.nat[j] = 0)

IntegerBits(x) ==
  IF x.exp >= 0 THEN ShiftLeft(x.nat, x.exp)
                ELSE SubSeq(x.nat, 1 - x.exp, Len(x.nat))

\* The record of the number a dyadic rational of at most Precision + 1 bits is.
Canonical(x) ==
  IF x.nat = << >> THEN I(0)
  ELSE IF IsInteger(x) /\ Len(x.nat) + x.exp <= SmallIntBits
    THEN I(IF x.neg THEN -NatVal(IntegerBits(x)) ELSE NatVal(IntegerBits(x)))
  ELSE LET t == Trim(x.nat)
           pad == Precision - Len(t)
       IN  IF pad >= 0
             THEN [int |-> FALSE, n |-> 0, neg |-> x.neg, exp |-> x.exp - pad,
                   sig |-> ShiftLeft(t, pad)]
             ELSE [int |-> FALSE, n |-> 0, neg |-> x.neg, exp |-> x.exp - pad,
                   sig |-> SubSeq(t, 1 - pad, Len(t))]

\* x + y of JavaScript.
NumAdd(x, y) ==
  IF x.int /\ y.int /\ x.n + y.n < SmallInt /\ x.n + y.n > -SmallInt
    THEN I(x.n + y.n)
    ELSE Canonical(RoundToPrecision(ExactSum(ToDyadic(x), ToDyadic(y))))

\* -x
NumNeg(x) == IF x.int THEN I(-x.n) ELSE [x EXCEPT !.neg = ~x.neg]

\* x - y of JavaScript.
NumSub(x, y) == NumAdd(x, NumNeg(y))

\* x < y of JavaScript.
NumLess(x, y) ==
  IF x.int /\ y.int
    THEN x.n < y.n
    ELSE LET d == ExactSum(ToDyadic(x), ToDyadic(NumNeg(y)))
         IN  d.neg /\ d.nat # << >>

\* The bits of a hexadecimal numeral, most significant digit first.
HexBits(h) ==
  [j \in 1..(4 * Len(h)) |->
     (h[Len(h) - ((j - 1) \div 4)] \div (2 ^ ((j - 1) % 4))) % 2]

\* The binary64 number hex * 2^exp.
Hex(h, exp) == Canonical(Dyadic(FALSE, Trim(HexBits(h)), exp))

\* ------------------------------------------------------------- the tables
VARIABLES
  ingredients,     \* table ingredients: row id -> [name, current_stock, reorder_level]
  products,        \* table products: row id -> [name, price, recipe]
  sales,           \* table sales, in insertion order
  inventory_logs,  \* table inventory_logs, in insertion order
  req,             \* the handler invocations in flight, one per slot
  started,         \* number of requests issued so far
  responses        \* the last responses sent, oldest first (at most KeepResponses)

vars == <<ingredients, products, sales, inventory_logs, req, started, responses>>

\* How many of the most recent responses are remembered.
KeepResponses == 2

\* Rows of CREATE TABLE ingredients (id is the row's index: AUTOINCREMENT).
IngredientRow(name, current, reorder) ==
  [name |-> name, current_stock |-> current, reorder_level |-> reorder]

\* One recipe line, as in the seed data: { ingredientId, qty }.
Line(ingredientId, qty) == [ingredientId |-> ingredientId, qty |-> qty]

\* Rows of CREATE TABLE products; recipe stands for JSON.parse(recipe_json).
ProductRow(name, price, recipe) == [name |-> name, price |-> price, recipe |-> recipe]

\* The stock levels the two ingredients may start with (grams).
StockValues1 == {I(25), I(50)}
StockValues2 == {I(5), I(30)}

\* Stock levels with a fractional part: 0.1 = 0x1.999999999999Ap-4 and
\* 25.5 = 0x33p-1 for the first ingredient, 30.25 = 0x79p-2 for the second.
FractionalStocks1 == {Hex(<<1, 9, 9, 9, 9, 9, 9, 9, 9, 9, 9, 9, 9, 10>>, -56), Hex(<<3, 3>>, -1)}
FractionalStocks2 == {Hex(<<7, 9>>, -2)}

\* The products table: POST /api/products stores any recipe it is given.
\*   1: two distinct ingredients;  2: the same ingredient on two lines;
\*   3: no lines;                  4: a line whose ingredient does not exist.
SeedProducts ==
  << ProductRow("Chocolate Drizzle Cloud", 300, <<Line(1, 20), Line(2, 10)>>),
     ProductRow("Double Cloud", 200, <<Line(1, 20), Line(1, 20)>>),
     ProductRow("Plain Cloud", 100, << >>),
     ProductRow("Ghost Cloud", 300, <<Line(2, 10), Line(3, 2)>>) >>

\* The ingredients table with the given stocks.
SeedIngredients(s1, s2) ==
  << IngredientRow("Cotton Candy Base", s1, I(20)),
     IngredientRow("Chocolate Syrup", s2, I(10)) >>

\* ----------------------------------------------------------- SQL helpers
\* SELECT * FROM t WHERE id = ?  finds a row or nothing.
HasRow(table, id) == id \in DOMAIN table

\* UPDATE ingredients SET current_stock = ? WHERE id = ?
UpdateStock(table, id, newStock) ==
  IF HasRow(table, id)
    THEN [table EXCEPT ![id].current_stock = newStock]
    ELSE table

\* INSERT INTO inventory_logs (date, ingredient_id, change, reason)
LogRow(ingredient_id, change, reason) ==
  [ingredient_id |-> ingredient_id, change |-> change, reason |-> reason]

\* INSERT INTO sales (date, product_id, qty, total_price)
SaleRow(product_id, qty, total_price) ==
  [product_id |-> product_id, qty |-> qty, total_price |-> total_price]

\* ------------------------------------------------------------- responses
\* What res.status(..).json(..) sends: the status, the error message (the
\* text of its template, whose argument is in id or ingredient), the
\* ingredient field, and totalPrice (an integer) or newStock (a number).
\* Absent fields hold "" or 0.
Response(status, error, ingredient, id, amount) ==
  [status |-> status, error |-> error, ingredient |-> ingredient, id |-> id,
   amount |-> amount]

\* The state of the tables as a request sees it when it arrives.
Snapshot ==
  [ingredients |-> ingredients, products |-> products,
   inventory_logs |-> inventory_logs, sales |-> sales]

\* A slot with no request in it.  The fields are the handler's parameters
\* (product_id, qty, id, change, reason, and the row a create request is to
\* insert), its locals (product, i for the position of "for (const item of
\* recipe)", ing for ing.id, newStock, and the figures read so far by the
\* dashboard and the report) and pre, the tables as they were when the
\* request arrived.
Idle ==
  [pc |-> "idle", kind |-> "none", seq |-> 0,
   product_id |-> 0, qty |-> 0, id |-> 0, change |-> 0, reason |-> "",
   product |-> ProductRow("", 0, << >>), i |-> 0, ing |-> 0, newStock |-> I(0),
   newIngredient |-> IngredientRow("", I(0), I(0)),
   newProduct |-> ProductRow("", 0, << >>),
   revenue |-> 0, sales_count |-> 0, total_tubs |-> 0,
   pre |-> [ingredients |-> << >>, products |-> << >>,
            inventory_logs |-> << >>, sales |-> << >>]]

AllIdle == \A r \in Slots : req[r].pc = "idle"

\* Sending the response ends the handler: the slot is free again and the
\* response is remembered with the request it answers.
Answered(r, response) ==
  [request |-> req[r], response |-> response]

Remember(list, entry) ==
  LET all == Append(list, entry)
  IN  IF Len(all) > KeepResponses THEN Tail(all) ELSE all

Reply(r, response) ==
  /\ req' = [req EXCEPT ![r] = Idle]
  /\ responses' = Remember(responses, Answered(r, response))


\* --------------------------------------------------- POST /api/sales
\* const { product_id, qty } = req.body; the handler suspends at its first await.
StartSale(r, product_id, qty) ==
  /\ req[r].pc = "idle"
  /\ started < MaxRequests
  /\ started' = started + 1
  /\ req' = [req EXCEPT ![r] = [Idle EXCEPT !.pc = "getProduct", !.kind = "sale",
                                            !.seq = started + 1,
                                            !.product_id = product_id, !.qty = qty,
                                            !.pre = Snapshot]]
  /\ UNCHANGED <<ingredients, products, sales, inventory_logs, responses>>

\* item.qty * qty for the recipe line the loop is at.
Required(q) == q.product.recipe[q.i].qty * q.qty

\* A check loop that starts over when it reaches the end of the recipe.
AfterCheckStartsOver(q) ==
  IF Len(q.product.recipe) = 0
    THEN [q EXCEPT !.pc = "insertSale"]
    ELSE [q EXCEPT !.pc = "checkIng", !.i = 1]

\* Where the handler goes once the check loop is over: the deduct loop, or
\* straight to the sales insert when the recipe has no lines.
AfterCheck(q) ==
  IF Len(q.product.recipe) = 0
    THEN [q EXCEPT !.pc = "insertSale"]
    ELSE [q EXCEPT !.pc = "deductIng", !.i = 1]

\* A missing product answered as a failure of the server.
ProductNotFoundAsFailure == Response(500, "Failed to record sale", "", 0, 0)

\* res.status(404).json({ error: 'Product not found' })
ProductNotFound == Response(404, "Product not found", "", 0, 0)

\* SELECT * FROM products WHERE id = ?; 404 when there is no such row.
SaleGetProduct(r) ==
  /\ req[r].pc = "getProduct"
  /\ IF ~HasRow(products, req[r].product_id)
       THEN Reply(r, ProductNotFound)
       ELSE LET q == [req[r] EXCEPT !.product = products[req[r].product_id]]
            IN  /\ req' = [req EXCEPT ![r] =
                            IF Len(q.product.recipe) = 0
                              THEN AfterCheck(q)
                              ELSE [q EXCEPT !.pc = "checkIng", !.i = 1]]
                /\ UNCHANGED responses
  /\ UNCHANGED <<ingredients, products, sales, inventory_logs, started>>

\* A check that compares the stock with zero instead of the required amount.
NotEnoughAgainstZero(current_stock, required) == NumLess(current_stock, I(0))

\* ing.current_stock < required
NotEnough(current_stock, required) == NumLess(current_stock, I(required))

\* A missing ingredient answered as a missing product.
IngredientMissingAs404(id) == Response(404, "Product not found", "", 0, 0)

\* res.status(400).json({ error: `Ingredient ${item.ingredientId} missing` })
IngredientMissing(id) == Response(400, "Ingredient ${id} missing", "", id, 0)

\* A short ingredient answered without its name.
NotEnoughStockUnnamed(name) == Response(400, "Not enough stock", "", 0, 0)

\* res.status(400).json({ error: `Not enough stock for ingredient ${ing.name}`,
\*                        ingredient: ing.name })
NotEnoughStock(name) ==
  Response(400, "Not enough stock for ingredient ${name}", name, 0, 0)

\* One turn of the "Check stock" loop: read the line's ingredient, answer 400
\* when it is missing or short, else go on to the next line.
SaleCheckIng(r) ==
  /\ req[r].pc = "checkIng"
  /\ LET q == req[r]
         item == q.product.recipe[q.i]
     IN  IF ~HasRow(ingredients, item.ingredientId)
           THEN Reply(r, IngredientMissing(item.ingredientId))
           ELSE LET ing == ingredients[item.ingredientId]
                IN  IF NotEnough(ing.current_stock, Required(q))
                      THEN Reply(r, NotEnoughStock(ing.name))
                      ELSE /\ req' = [req EXCEPT ![r] =
                                       IF q.i < Len(q.product.recipe)
                                         THEN [q EXCEPT !.i = q.i + 1]
                                         ELSE AfterCheck(q)]
                           /\ UNCHANGED responses
  /\ UNCHANGED <<ingredients, products, sales, inventory_logs, started>>

\* A deduction with the sign of the change slipped.
DeductedSignSlip(current_stock, required) == NumAdd(current_stock, I(required))

\* const newStock = ing.current_stock - required
Deducted(current_stock, required) == NumSub(current_stock, I(required))

\* One turn of the "Deduct stock" loop, first await: read the ingredient again
\* and compute newStock.  (A missing row makes ing.current_stock throw: 500.)
SaleDeductIng(r) ==
  /\ req[r].pc = "deductIng"
  /\ LET q == req[r]
         item == q.product.recipe[q.i]
     IN  IF ~HasRow(ingredients, item.ingredientId)
           THEN Reply(r, Response(500, "Failed to record sale", "", 0, 0))
           ELSE /\ req' = [req EXCEPT ![r] =
                            [q EXCEPT !.pc = "updateStock",
                                      !.ing = item.ingredientId,
                                      !.newStock =
                                         Deducted(ingredients[item.ingredientId].current_stock,
                                                  Required(q))]]
                /\ UNCHANGED responses
  /\ UNCHANGED <<ingredients, products, sales, inventory_logs, started>>

\* A deduct loop that goes on to the log row without writing the stock.
SaleUpdateStockSkipped(r) ==
  /\ req[r].pc = "updateStock"
  /\ req' = [req EXCEPT ![r].pc = "insertLog"]
  /\ UNCHANGED <<ingredients, products, sales, inventory_logs, started, responses>>

\* Second await of the deduct loop: UPDATE ingredients SET current_stock = newStock.
SaleUpdateStock(r) ==
  /\ req[r].pc = "updateStock"
  /\ ingredients' = UpdateStock(ingredients, req[r].ing, req[r].newStock)
  /\ req' = [req EXCEPT ![r].pc = "insertLog"]
  /\ UNCHANGED <<products, sales, inventory_logs, started, responses>>

\* The log row of a deduction: [ing.id, -required, `Sale of ${product.name}`].
SaleLogRow(q) == LogRow(q.ing, -Required(q), <<"Sale of ", q.product.name>>)

\* Third await of the deduct loop: INSERT INTO inventory_logs, then the next
\* line, or the sales insert after the last one.
SaleInsertLog(r) ==
  /\ req[r].pc = "insertLog"
  /\ inventory_logs' = Append(inventory_logs, SaleLogRow(req[r]))
  /\ req' = [req EXCEPT ![r] =
               IF req[r].i < Len(req[r].product.recipe)
                 THEN [req[r] EXCEPT !.pc = "deductIng", !.i = req[r].i + 1]
                 ELSE [req[r] EXCEPT !.pc = "insertSale"]]
  /\ UNCHANGED <<ingredients, products, sales, started, responses>>

\* A total that forgets the quantity.
TotalPriceOfOne(q) == q.product.price

\* const totalPrice = product.price * qty
TotalPrice(q) == q.product.price * q.qty

\* INSERT INTO sales, then res.json({ success: true, totalPrice }).
SaleInsertSale(r) ==
  /\ req[r].pc = "insertSale"
  /\ sales' = Append(sales, SaleRow(req[r].product_id, req[r].qty, TotalPrice(req[r])))
  /\ Reply(r, Response(200, "", "", 0, TotalPrice(req[r])))
  /\ UNCHANGED <<ingredients, products, inventory_logs, started>>

\* ------------------------------------ POST /api/ingredients/:id/adjust
\* const { change, reason } = req.body, with req.params.id.
StartAdjust(r, id, change, reason) ==
  /\ req[r].pc = "idle"
  /\ started < MaxRequests
  /\ started' = started + 1
  /\ req' = [req EXCEPT ![r] = [Idle EXCEPT !.pc = "adjustGet", !.kind = "adjust",
                                            !.seq = started + 1,
                                            !.id = id, !.change = change,
                                            !.reason = reason, !.pre = Snapshot]]
  /\ UNCHANGED <<ingredients, products, sales, inventory_logs, responses>>

\* An adjustment that refuses to go below zero.
AdjustedClamped(current_stock, change) ==
  IF NumLess(NumAdd(current_stock, I(change)), I(0))
    THEN I(0)
    ELSE NumAdd(current_stock, I(change))

\* const newStock = ing.current_stock + change
Adjusted(current_stock, change) == NumAdd(current_stock, I(change))

\* A missing ingredient answered as a success.
IngredientNotFoundAsSuccess == Response(200, "", "", 0, I(0))

\* res.status(404).json({ error: 'Ingredient not found' })
IngredientNotFound == Response(404, "Ingredient not found", "", 0, 0)

\* SELECT * FROM ingredients WHERE id = ?; 404 when there is no such row,
\* else newStock is computed from the row just read.
AdjustGet(r) ==
  /\ req[r].pc = "adjustGet"
  /\ IF ~HasRow(ingredients, req[r].id)
       THEN Reply(r, IngredientNotFound)
       ELSE /\ req' = [req EXCEPT ![r].pc = "adjustUpdate",
                                  ![r].newStock =
                                     Adjusted(ingredients[req[r].id].current_stock,
                                              req[r].change)]
            /\ UNCHANGED responses
  /\ UNCHANGED <<ingredients, products, sales, inventory_logs, started>>

\* UPDATE ingredients SET current_stock = newStock WHERE id = req.params.id
AdjustUpdate(r) ==
  /\ req[r].pc = "adjustUpdate"
  /\ ingredients' = UpdateStock(ingredients, req[r].id, req[r].newStock)
  /\ req' = [req EXCEPT ![r].pc = "adjustInsertLog"]
  /\ UNCHANGED <<products, sales, inventory_logs, started, responses>>

\* reason || 'Manual adjust'
ReasonOrDefault(reason) == IF reason = "" THEN "Manual adjust" ELSE reason

\* The log row of an adjustment: [req.params.id, change, reason || 'Manual adjust'].
AdjustLogRow(q) == LogRow(q.id, q.change, <<ReasonOrDefault(q.reason)>>)

\* An adjustment whose log row replaces the rows logged before.
AdjustInsertLogOverwriting(r) ==
  /\ req[r].pc = "adjustInsertLog"
  /\ inventory_logs' = <<AdjustLogRow(req[r])>>
  /\ Reply(r, Response(200, "", "", 0, req[r].newStock))
  /\ UNCHANGED <<ingredients, products, sales, started>>

\* INSERT INTO inventory_logs, then res.json({ success: true, newStock }).
AdjustInsertLog(r) ==
  /\ req[r].pc = "adjustInsertLog"
  /\ inventory_logs' = Append(inventory_logs, AdjustLogRow(req[r]))
  /\ Reply(r, Response(200, "", "", 0, req[r].newStock))
  /\ UNCHANGED <<ingredients, products, sales, started>>

\* ------------------------- POST /api/ingredients and POST /api/products
\* const { name, unit, current_stock, reorder_level, unit_cost } = req.body
StartCreateIngredient(r, row) ==
  /\ req[r].pc = "idle"
  /\ started < MaxRequests
  /\ started' = started + 1
  /\ req' = [req EXCEPT ![r] = [Idle EXCEPT !.pc = "insertIngredient",
                                            !.kind = "createIngredient",
                                            !.seq = started + 1,
                                            !.newIngredient = row, !.pre = Snapshot]]
  /\ UNCHANGED <<ingredients, products, sales, inventory_logs, responses>>

\* INSERT INTO ingredients, then res.json({ id: result.lastID }).
CreateIngredient(r) ==
  /\ req[r].pc = "insertIngredient"
  /\ ingredients' = Append(ingredients, req[r].newIngredient)
  /\ Reply(r, Response(200, "", "", Len(ingredients) + 1, 0))
  /\ UNCHANGED <<products, sales, inventory_logs, started>>

\* const { name, price, recipe } = req.body
StartCreateProduct(r, row) ==
  /\ req[r].pc = "idle"
  /\ started < MaxRequests
  /\ started' = started + 1
  /\ req' = [req EXCEPT ![r] = [Idle EXCEPT !.pc = "insertProduct",
                                            !.kind = "createProduct",
                                            !.seq = started + 1,
                                            !.newProduct = row, !.pre = Snapshot]]
  /\ UNCHANGED <<ingredients, products, sales, inventory_logs, responses>>

\* INSERT INTO products, then res.json({ id: result.lastID }).
CreateProduct(r) ==
  /\ req[r].pc = "insertProduct"
  /\ products' = Append(products, req[r].newProduct)
  /\ Reply(r, Response(200, "", "", Len(products) + 1, 0))
  /\ UNCHANGED <<ingredients, sales, inventory_logs, started>>

\* ------------- GET /api/dashboard/summary and GET /api/reports/monthly-pdf
\* SELECT SUM(total_price) FROM sales, with "|| 0" for the NULL of no rows.
RECURSIVE SumTotalPrice(_)
SumTotalPrice(rows) ==
  IF rows = << >> THEN 0 ELSE Head(rows).total_price + SumTotalPrice(Tail(rows))

\* SELECT SUM(qty) FROM sales, with "|| 0" for the NULL of no rows.
RECURSIVE SumQty(_)
SumQty(rows) ==
  IF rows = << >> THEN 0 ELSE Head(rows).qty + SumQty(Tail(rows))

\* A low-stock test that leaves out the ingredients exactly at their level.
IsLowStrict(row) == NumLess(row.current_stock, row.reorder_level)

\* current_stock <= reorder_level
IsLow(row) == ~NumLess(row.reorder_level, row.current_stock)

\* SELECT * FROM ingredients WHERE current_stock <= reorder_level, and
\* ingredients.filter(i => i.current_stock <= i.reorder_level): the ids of
\* the rows kept, in the order of the table.
LowStock(table) ==
  LET low == {id \in DOMAIN table : IsLow(table[id])}
  IN  [k \in 1..Cardinality(low) |->
         CHOOSE id \in low : Cardinality({other \in low : other <= id}) = k]

\* res.json({ revenue, sales_count, total_tubs, low_stock })
SummaryResponse(revenue, sales_count, total_tubs, low_stock) ==
  [status |-> 200, revenue |-> revenue, sales_count |-> sales_count,
   total_tubs |-> total_tubs, low_stock |-> low_stock]

StartSummary(r) ==
  /\ req[r].pc = "idle"
  /\ started < MaxRequests
  /\ started' = started + 1
  /\ req' = [req EXCEPT ![r] = [Idle EXCEPT !.pc = "sumRevenue", !.kind = "summary",
                                            !.seq = started + 1, !.pre = Snapshot]]
  /\ UNCHANGED <<ingredients, products, sales, inventory_logs, responses>>

\* const revenueRow = await getAsync('SELECT SUM(total_price) AS revenue FROM sales')
SummaryRevenue(r) ==
  /\ req[r].pc = "sumRevenue"
  /\ req' = [req EXCEPT ![r].pc = "countSales", ![r].revenue = SumTotalPrice(sales)]
  /\ UNCHANGED <<ingredients, products, sales, inventory_logs, started, responses>>

\* const salesCountRow = await getAsync('SELECT COUNT(*) AS sales_count FROM sales')
SummaryCount(r) ==
  /\ req[r].pc = "countSales"
  /\ req' = [req EXCEPT ![r].pc = "sumTubs", ![r].sales_count = Len(sales)]
  /\ UNCHANGED <<ingredients, products, sales, inventory_logs, started, responses>>

\* const tubsRow = await getAsync('SELECT SUM(qty) AS total_tubs FROM sales')
SummaryTubs(r) ==
  /\ req[r].pc = "sumTubs"
  /\ req' = [req EXCEPT ![r].pc = "lowStock", ![r].total_tubs = SumQty(sales)]
  /\ UNCHANGED <<ingredients, products, sales, inventory_logs, started, responses>>

\* const lowStock = await allAsync(...), then res.json.
SummaryLowStock(r) ==
  /\ req[r].pc = "lowStock"
  /\ Reply(r, SummaryResponse(req[r].revenue, req[r].sales_count, req[r].total_tubs,
                              LowStock(ingredients)))
  /\ UNCHANGED <<ingredients, products, sales, inventory_logs, started>>

\* The report, requested without a month: what the PDF prints.
ReportResponse(revenue, tubs, low_stock) ==
  [status |-> 200, revenue |-> revenue, tubs |-> tubs, low_stock |-> low_stock]

StartReport(r) ==
  /\ req[r].pc = "idle"
  /\ started < MaxRequests
  /\ started' = started + 1
  /\ req' = [req EXCEPT ![r] = [Idle EXCEPT !.pc = "reportSum", !.kind = "report",
                                            !.seq = started + 1, !.pre = Snapshot]]
  /\ UNCHANGED <<ingredients, products, sales, inventory_logs, responses>>

\* const summary = await getAsync('SELECT SUM(total_price) AS revenue,
\* SUM(qty) AS tubs FROM sales')
ReportSum(r) ==
  /\ req[r].pc = "reportSum"
  /\ req' = [req EXCEPT ![r].pc = "reportIngredients",
                        ![r].revenue = SumTotalPrice(sales),
                        ![r].total_tubs = SumQty(sales)]
  /\ UNCHANGED <<ingredients, products, sales, inventory_logs, started, responses>>

\* const ingredients = await allAsync('SELECT * FROM ingredients'); the
\* document is then written without a further await.
ReportIngredients(r) ==
  /\ req[r].pc = "reportIngredients"
  /\ Reply(r, ReportResponse(req[r].revenue, req[r].total_tubs, LowStock(ingredients)))
  /\ UNCHANGED <<ingredients, products, sales, inventory_logs, started>>

\* ------------------------------------------------------ storage failure
\* getAsync / runAsync reject when sqlite reports an error: the awaited
\* statement has no effect, the handler's catch block answers 500.
FailureMessage(kind) ==
  CASE kind = "sale" -> "Failed to record sale"
    [] kind = "adjust" -> "Failed to adjust stock"
    [] kind = "createIngredient" -> "Failed to create ingredient"
    [] kind = "createProduct" -> "Failed to create product"
    [] kind = "summary" -> "Failed to load summary"
    [] kind = "report" -> "Failed to generate PDF"

StorageFailure(r) ==
  /\ req[r].pc # "idle"
  /\ Reply(r, Response(500, FailureMessage(req[r].kind), "", 0, 0))
  /\ UNCHANGED <<ingredients, products, sales, inventory_logs, started>>

\* ------------------------------------------------------------ the inputs
\* product_id of a sale request: the four products and an id with no row.
ProductIds == 1..5
\* qty of a sale request, as the server receives it (it is not validated).
Quantities == {-1, 0, 1, 2}
\* :id of an adjust request: the two ingredients and an id with no row.
IngredientIds == 1..3
\* change and reason of an adjust request.
Adjustments == { <<10, "restock">>, <<-10, "correction">>, <<-30, "">> }

\* The rows of create requests: an ingredient that gives the recipe line of
\* 'Ghost Cloud' its row, and a product.
NewIngredients == { IngredientRow("Dark Chocolate Chips", I(2), I(5)) }
NewProducts == { ProductRow("Mini Cloud", 50, <<Line(1, 20)>>) }

\* current_stock and reorder_level of an ingredient, for the low-stock
\* test: below, at and above the level, with and without a fractional part
\* (0.1 = 0x1.999999999999Ap-4 and the next number above it).
Tenth == Hex(<<1, 9, 9, 9, 9, 9, 9, 9, 9, 9, 9, 9, 9, 10>>, -56)
AboveTenth == Hex(<<1, 9, 9, 9, 9, 9, 9, 9, 9, 9, 9, 9, 9, 11>>, -56)
LowStockValues == {I(-5), I(0), I(10), I(20), Tenth, AboveTenth}
LowStockPairs1 == LowStockValues \X LowStockValues
LowStockPairs2 == { <<I(10), I(10)>>, <<I(20), I(10)>>, <<Tenth, AboveTenth>> }

\* ------------------------------------------------------ specifications
\* The server is up, the tables hold the given ingredients and the products,
\* no request has arrived.
InitWith(stocks1, stocks2) ==
  /\ \E s1 \in stocks1, s2 \in stocks2 : ingredients = SeedIngredients(s1, s2)
  /\ products = SeedProducts
  /\ sales = << >>
  /\ inventory_logs = << >>
  /\ req = [r \in Slots |-> Idle]
  /\ started = 0
  /\ responses = << >>

Init == InitWith(StockValues1, StockValues2)

\* The same with stocks that have a fractional part.
InitF64 == InitWith(FractionalStocks1, FractionalStocks2)

\* One step of a handler in flight, at its awaited storage operation.
Step(r) ==
  \/ SaleGetProduct(r)
  \/ SaleCheckIng(r)
  \/ SaleDeductIng(r)
  \/ SaleUpdateStock(r)
  \/ SaleInsertLog(r)
  \/ SaleInsertSale(r)
  \/ AdjustGet(r)
  \/ AdjustUpdate(r)
  \/ AdjustInsertLog(r)

\* A request arrives.
Arrive(r) ==
  \/ \E p \in ProductIds, q \in Quantities : StartSale(r, p, q)
  \/ \E id \in IngredientIds, a \in Adjustments : StartAdjust(r, id, a[1], a[2])

\* Requests one at a time: a request arrives only when none is in flight.
NextSeq == \E r \in Slots : (AllIdle /\ Arrive(r)) \/ Step(r)
SpecSeq == Init /\ [][NextSeq]_vars

\* Requests one at a time on stocks with a fractional part.
SpecF64 == InitF64 /\ [][NextSeq]_vars

\* Requests interleave at their awaits.
NextConc == \E r \in Slots : Arrive(r) \/ Step(r)
SpecConc == Init /\ [][NextConc]_vars

\* Requests one at a time, and any awaited storage operation may fail.
NextFail == \E r \in Slots : (AllIdle /\ Arrive(r)) \/ Step(r) \/ StorageFailure(r)
SpecFail == Init /\ [][NextFail]_vars

\* The other handlers: creating rows, the dashboard summary and the report.
StepOther(r) ==
  \/ CreateIngredient(r)
  \/ CreateProduct(r)
  \/ SummaryRevenue(r)
  \/ SummaryCount(r)
  \/ SummaryTubs(r)
  \/ SummaryLowStock(r)
  \/ ReportSum(r)
  \/ ReportIngredients(r)

ArriveOther(r) ==
  \/ \E row \in NewIngredients : StartCreateIngredient(r, row)
  \/ \E row \in NewProducts : StartCreateProduct(r, row)
  \/ StartSummary(r)
  \/ StartReport(r)

\* Every operation, one request at a time.
NextOpsSeq ==
  \E r \in Slots :
     (AllIdle /\ Arrive(r)) \/ (AllIdle /\ ArriveOther(r)) \/ Step(r) \/ StepOther(r)
SpecOpsSeq == Init /\ [][NextOpsSeq]_vars

\* Every operation, interleaving at the awaits, with storage failures.
NextOps ==
  \E r \in Slots :
     Arrive(r) \/ ArriveOther(r) \/ Step(r) \/ StepOther(r) \/ StorageFailure(r)
SpecOps == Init /\ [][NextOps]_vars

\* Sales, adjustments and dashboard summaries, interleaving at their awaits.
NextDashboard ==
  \E r \in Slots :
     \/ Arrive(r)
     \/ StartSummary(r)
     \/ Step(r)
     \/ SummaryRevenue(r)
     \/ SummaryCount(r)
     \/ SummaryTubs(r)
     \/ SummaryLowStock(r)
SpecDashboard == Init /\ [][NextDashboard]_vars

\* One step of a sale in flight: its awaited storage operation completes,
\* successfully or with an error.
SaleStep(r) ==
  \/ SaleGetProduct(r)
  \/ SaleCheckIng(r)
  \/ SaleDeductIng(r)
  \/ SaleUpdateStock(r)
  \/ SaleInsertLog(r)
  \/ SaleInsertSale(r)
  \/ StorageFailure(r)

\* The seeded tables with 25 of the base and 30 of the syrup.
InitSales == InitWith({I(25)}, {I(30)})

\* Sales interleaving at their awaits, any storage operation may fail, and
\* every storage operation awaited eventually completes.
NextSales ==
  \E r \in Slots :
     \/ \E p \in ProductIds, q \in Quantities : StartSale(r, p, q)
     \/ SaleStep(r)
SpecSalesLive ==
  InitSales /\ [][NextSales]_vars /\ \A r \in Slots : WF_vars(SaleStep(r))

\* The dashboard summary and the report, one at a time, on tables whose two
\* ingredients have any of the stock / reorder level pairs.
InitLow ==
  /\ \E a \in LowStockPairs1, b \in LowStockPairs2 :
        ingredients = << IngredientRow("Cotton Candy Base", a[1], a[2]),
                         IngredientRow("Chocolate Syrup", b[1], b[2]) >>
  /\ products = SeedProducts
  /\ sales = << >>
  /\ inventory_logs = << >>
  /\ req = [r \in Slots |-> Idle]
  /\ started = 0
  /\ responses = << >>

NextLow ==
  \E r \in Slots :
     \/ AllIdle /\ StartSummary(r)
     \/ AllIdle /\ StartReport(r)
     \/ SummaryRevenue(r)
     \/ SummaryCount(r)
     \/ SummaryTubs(r)
     \/ SummaryLowStock(r)
     \/ ReportSum(r)
     \/ ReportIngredients(r)
SpecLow == InitLow /\ [][NextLow]_vars

\* Everything: interleaving and storage failures.
Next == \E r \in Slots : Arrive(r) \/ Step(r) \/ StorageFailure(r)
Spec == Init /\ [][Next]_vars

\* ====================================================================
\* The claims.
\* ====================================================================
\* In the specifications whose stocks are integers, current_stock.n is the
\* stock.
\* The request answered last, with its response.
Last == responses[Len(responses)]

\* No request is in flight and the last answer is to a sale / an adjustment:
\* the tables are as that request left them.
SaleAnswered == AllIdle /\ Len(responses) > 0 /\ Last.request.kind = "sale"
AdjustAnswered == AllIdle /\ Len(responses) > 0 /\ Last.request.kind = "adjust"

\* The tables are exactly as the request q found them.
TablesAsBefore(q) ==
  /\ ingredients = q.pre.ingredients
  /\ products = q.pre.products
  /\ inventory_logs = q.pre.inventory_logs
  /\ sales = q.pre.sales

\* The recipe of the product a sale request names, in the tables it found.
RecipeOf(q) == q.pre.products[q.product_id].recipe

\* Line k of the request's recipe names an existing ingredient whose stock,
\* when the request arrived, was below qtyPerUnit * q.
LineShort(q, k) ==
  LET item == RecipeOf(q)[k]
  IN  /\ HasRow(q.pre.ingredients, item.ingredientId)
      /\ q.pre.ingredients[item.ingredientId].current_stock.n < item.qty * q.qty

\* Line k names an existing ingredient with stock >= qtyPerUnit * q.
LineFeasible(q, k) ==
  LET item == RecipeOf(q)[k]
  IN  /\ HasRow(q.pre.ingredients, item.ingredientId)
      /\ q.pre.ingredients[item.ingredientId].current_stock.n >= item.qty * q.qty

\* C1: a sale run alone for which some recipe line's ingredient has less
\* stock than qtyPerUnit*q is answered 400 and leaves every table as it was:
\* no stock changes (also not for feasible lines before the failing one),
\* no inventory_logs row and no sales row is appended.
C1_InfeasibleSaleChangesNothing ==
  SaleAnswered =>
    LET q == Last.request
    IN  (HasRow(q.pre.products, q.product_id)
         /\ \E k \in DOMAIN RecipeOf(q) : LineShort(q, k))
        => /\ Last.response.status = 400
           /\ TablesAsBefore(q)

\* C1 witness: a two-line recipe whose first line was feasible and whose
\* second line was short has been refused.
C1_Witness ==
  /\ SaleAnswered
  /\ HasRow(Last.request.pre.products, Last.request.product_id)
  /\ Len(RecipeOf(Last.request)) = 2
  /\ LineFeasible(Last.request, 1)
  /\ LineShort(Last.request, 2)
  /\ Last.response.status = 400

\* The sale request q found its product and, for every recipe line, an
\* existing ingredient with stock >= qtyPerUnit * q; q is positive.
SaleFeasible(q) ==
  /\ HasRow(q.pre.products, q.product_id)
  /\ q.qty > 0
  /\ \A k \in DOMAIN RecipeOf(q) : LineFeasible(q, k)

\* The sum of qtyPerUnit over the lines of a recipe that name ingredient id.
RECURSIVE PerUnit(_, _)
PerUnit(recipe, id) ==
  IF recipe = << >> THEN 0
  ELSE (IF Head(recipe).ingredientId = id THEN Head(recipe).qty ELSE 0)
       + PerUnit(Tail(recipe), id)

\* The log rows a committed sale appends: one per recipe line, in order.
ExpectedSaleLogs(q) ==
  [k \in DOMAIN RecipeOf(q) |->
     LogRow(RecipeOf(q)[k].ingredientId, -(RecipeOf(q)[k].qty * q.qty),
            <<"Sale of ", q.pre.products[q.product_id].name>>)]

\* What a committed sale leaves apart from the stocks: 200 with
\* totalPrice = price*q, one log row per line, one sales row, and every
\* ingredient's other columns and the products as they were.
SaleRecorded(q, response) ==
  LET price == q.pre.products[q.product_id].price
  IN  /\ response.status = 200
      /\ response.amount = price * q.qty
      /\ inventory_logs = q.pre.inventory_logs \o ExpectedSaleLogs(q)
      /\ sales = q.pre.sales \o <<SaleRow(q.product_id, q.qty, price * q.qty)>>
      /\ products = q.pre.products
      /\ DOMAIN ingredients = DOMAIN q.pre.ingredients
      /\ \A id \in DOMAIN ingredients :
            /\ ingredients[id].name = q.pre.ingredients[id].name
            /\ ingredients[id].reorder_level = q.pre.ingredients[id].reorder_level

\* The ingredients no line of the recipe names are unchanged.
OthersUnchanged(q) ==
  \A id \in DOMAIN ingredients :
     (\A k \in DOMAIN RecipeOf(q) : RecipeOf(q)[k].ingredientId # id)
        => ingredients[id] = q.pre.ingredients[id]

\* C2 as stated: a feasible sale run alone succeeds (200, totalPrice =
\* price*q), the stock of every recipe line's ingredient has decreased by
\* exactly that line's qtyPerUnit*q, one log row per line and one sales row
\* are appended, and the other ingredients are unchanged.
C2_AsStated ==
  SaleAnswered =>
    LET q == Last.request
    IN  SaleFeasible(q)
        => /\ SaleRecorded(q, Last.response)
           /\ OthersUnchanged(q)
           /\ \A k \in DOMAIN RecipeOf(q) :
                 LET item == RecipeOf(q)[k]
                 IN  ingredients[item.ingredientId].current_stock.n
                       = q.pre.ingredients[item.ingredientId].current_stock.n
                           - item.qty * q.qty

\* C2 amended: as C2, but an ingredient's stock decreases by q times the
\* sum of qtyPerUnit over all the recipe lines that name it (which is one
\* line's qtyPerUnit*q when no ingredient is named twice, and 0 for an
\* ingredient outside the recipe).
C2_FeasibleSaleCommits ==
  SaleAnswered =>
    LET q == Last.request
    IN  SaleFeasible(q)
        => /\ SaleRecorded(q, Last.response)
           /\ OthersUnchanged(q)
           /\ \A id \in DOMAIN ingredients :
                 ingredients[id].current_stock.n
                   = q.pre.ingredients[id].current_stock.n
                       - PerUnit(RecipeOf(q), id) * q.qty

\* C2 witness: a sale of two units of a two-line recipe has committed.
C2_Witness ==
  /\ SaleAnswered
  /\ SaleFeasible(Last.request)
  /\ Len(RecipeOf(Last.request)) = 2
  /\ Last.request.qty = 2
  /\ Last.response.status = 200
  /\ Len(sales) = Len(Last.request.pre.sales) + 1

\* No manual adjustment has touched the stocks: none is in flight and no
\* log row comes from one (a sale's reason is `Sale of <name>`).
NoAdjustments ==
  /\ \A r \in Slots : req[r].kind # "adjust"
  /\ \A k \in DOMAIN inventory_logs : inventory_logs[k].reason[1] = "Sale of "

\* C3: starting from non-negative stocks, sales run one at a time (no
\* manual adjustment) never leave an ingredient's current_stock below 0,
\* whatever the recipe, also one that names an ingredient on two lines.
C3_SalesKeepStockNonNegative ==
  NoAdjustments => \A id \in DOMAIN ingredients : ingredients[id].current_stock.n >= 0

\* A recipe that names some ingredient on two lines.
NamesTwice(recipe) ==
  \E j \in DOMAIN recipe, k \in DOMAIN recipe :
     j < k /\ recipe[j].ingredientId = recipe[k].ingredientId

\* Sale q has passed its check of every recipe line, one of which read
\* ingredient id, and has not yet written its own deduction for that line.
InWindow(q, id) ==
  /\ q.kind = "sale"
  /\ \E k \in DOMAIN q.product.recipe :
        /\ q.product.recipe[k].ingredientId = id
        /\ \/ q.pc \in {"deductIng", "updateStock"} /\ k >= q.i
           \/ q.pc = "insertLog" /\ k > q.i

\* This step is the commit-pass UPDATE of ingredient id by the sale in slot t.
CommitWrite(t, id) ==
  /\ req[t].kind = "sale"
  /\ req[t].pc = "updateStock"
  /\ req'[t].pc = "insertLog"
  /\ req[t].ing = id

\* C4: no other sale's commit-pass write to an ingredient falls between a
\* sale's feasibility read of that ingredient and its own commit write of it
\* (checked for sales of a positive qty whose recipes name no ingredient
\* twice).
C4_NoForeignWriteBetweenCheckAndCommit ==
  [][\A s \in Slots, t \in Slots, id \in DOMAIN ingredients :
        (/\ s # t
         /\ req[s].qty > 0 /\ ~NamesTwice(req[s].product.recipe)
         /\ req[t].qty > 0 /\ ~NamesTwice(req[t].product.recipe)
         /\ CommitWrite(t, id))
           => ~InWindow(req[s], id)]_vars

\* No sale in flight and no deduction logged so far is of a recipe that
\* names an ingredient twice (the case of C3).
NoRepeatingRecipeSold ==
  /\ \A r \in Slots : ~NamesTwice(req[r].product.recipe)
  /\ \A k \in DOMAIN inventory_logs, p \in DOMAIN products :
        NamesTwice(products[p].recipe)
          => inventory_logs[k].reason # <<"Sale of ", products[p].name>>

\* What a successful request adds to the stock of ingredient id.
Delta(q, id) ==
  IF q.kind = "adjust"
    THEN (IF q.id = id THEN q.change ELSE 0)
    ELSE -(PerUnit(RecipeOf(q), id) * q.qty)

\* The first two requests of the behaviour have both been answered 200 and
\* nothing else is in flight.
BothSucceeded ==
  /\ AllIdle
  /\ Len(responses) = 2
  /\ {responses[1].request.seq, responses[2].request.seq} = {1, 2}
  /\ responses[1].response.status = 200
  /\ responses[2].response.status = 200

\* The tables as the behaviour's first request found them.
First == IF responses[1].request.seq = 1 THEN responses[1].request
                                         ELSE responses[2].request

\* C5: with sales interleaving at their awaits (positive qty, no manual
\* adjustment), two sales that together need more of an ingredient than was
\* in stock never both commit, and no stock ever becomes negative.
C5_ConcurrentSalesNeverOverdraw ==
  /\ (NoAdjustments /\ NoRepeatingRecipeSold)
        => \A id \in DOMAIN ingredients : ingredients[id].current_stock.n >= 0
  /\ (BothSucceeded
       /\ \A n \in 1..2 : /\ responses[n].request.kind = "sale"
                           /\ responses[n].request.qty > 0
                           /\ ~NamesTwice(RecipeOf(responses[n].request)))
        => \A id \in DOMAIN ingredients :
              First.pre.ingredients[id].current_stock.n
                + Delta(responses[1].request, id) + Delta(responses[2].request, id) >= 0

\* C6: a sale whose qty is zero or negative is answered with an error and
\* leaves every table as it was.
C6_NonPositiveQtyRejected ==
  (SaleAnswered /\ Last.request.qty <= 0)
    => /\ Last.response.status >= 400
       /\ TablesAsBefore(Last.request)

\* Every effect of the sale q is present: all deductions, all log rows and
\* the sales row.
AllEffects(q) ==
  LET price == q.pre.products[q.product_id].price
  IN  /\ inventory_logs = q.pre.inventory_logs \o ExpectedSaleLogs(q)
      /\ sales = q.pre.sales \o <<SaleRow(q.product_id, q.qty, price * q.qty)>>
      /\ \A id \in DOMAIN ingredients :
            ingredients[id].current_stock.n
              = q.pre.ingredients[id].current_stock.n - PerUnit(RecipeOf(q), id) * q.qty

\* C7: a sale (of a positive qty) answered 500 because a storage operation
\* failed has left either all of its deductions, log rows and its sales
\* row, or none.
C7_FailedSaleIsAllOrNothing ==
  (SaleAnswered /\ Last.response.status = 500 /\ Last.request.qty > 0)
    => \/ TablesAsBefore(Last.request)
       \/ (HasRow(Last.request.pre.products, Last.request.product_id)
           /\ AllEffects(Last.request))

\* C8: when an adjustment interleaves with a sale or with another
\* adjustment and both succeed, every ingredient's stock is its stock
\* before both plus the deltas of both (no update is lost).
C8_NoLostUpdate ==
  (BothSucceeded /\ \E n \in 1..2 : responses[n].request.kind = "adjust")
    => \A id \in DOMAIN ingredients :
          ingredients[id].current_stock.n
            = First.pre.ingredients[id].current_stock.n
                + Delta(responses[1].request, id) + Delta(responses[2].request, id)

\* What an adjustment run alone leaves, given the reason its log row is to
\* carry: 200 with newStock = old stock + change (no feasibility check),
\* exactly that ingredient's current_stock set to it, exactly one log row
\* appended with the change and the reason, and the other ingredients, the
\* products and the sales as they were.
AdjustApplied(q, response, reason) ==
  LET newStock == I(q.pre.ingredients[q.id].current_stock.n + q.change)
  IN  /\ response.status = 200
      /\ response.amount = newStock
      /\ ingredients = [q.pre.ingredients EXCEPT ![q.id].current_stock = newStock]
      /\ inventory_logs = q.pre.inventory_logs \o <<LogRow(q.id, q.change, <<reason>>)>>
      /\ sales = q.pre.sales
      /\ products = q.pre.products

\* C9 as stated: an adjustment of an existing ingredient, run alone, applies
\* the delta, returns the resulting stock and appends exactly one log row
\* with change = delta and the supplied reason, whatever the reason is.
C9_AsStated ==
  (AdjustAnswered /\ HasRow(Last.request.pre.ingredients, Last.request.id))
    => AdjustApplied(Last.request, Last.response, Last.request.reason)

\* C9 amended: as C9, but the log row carries the supplied reason only when
\* it is not empty; an empty (or absent) reason is logged as 'Manual adjust'.
C9_AdjustAppliesDelta ==
  (AdjustAnswered /\ HasRow(Last.request.pre.ingredients, Last.request.id))
    => AdjustApplied(Last.request, Last.response,
                     IF Last.request.reason = "" THEN "Manual adjust"
                                                 ELSE Last.request.reason)

\* C9 witness: an adjustment has been applied that left a negative stock.
C9_Witness ==
  /\ AdjustAnswered
  /\ HasRow(Last.request.pre.ingredients, Last.request.id)
  /\ Last.response.status = 200
  /\ Last.request.change < 0
  /\ ingredients[Last.request.id].current_stock.n < 0

\* The two requests answered last were, back to back, adjust(id, +10,
\* "restock") and adjust(id, -10, "correction") of one existing ingredient.
RestockThenCorrection ==
  /\ AllIdle
  /\ Len(responses) >= 2
  /\ LET a == responses[Len(responses) - 1].request
         b == Last.request
     IN  /\ a.kind = "adjust" /\ a.change = 10 /\ a.reason = "restock"
         /\ b.kind = "adjust" /\ b.change = -10 /\ b.reason = "correction"
         /\ a.id = b.id
         /\ b.seq = a.seq + 1
         /\ HasRow(a.pre.ingredients, a.id)

\* C10: adjust(id, +10, "restock") followed by adjust(id, -10,
\* "correction"), with no request in between, returns the ingredient's
\* current_stock to its value before the pair and appends exactly two log
\* rows, +10 and then -10.
C10_RestockThenCorrectionRoundTrip ==
  RestockThenCorrection =>
    LET a == responses[Len(responses) - 1].request
    IN  /\ ingredients[a.id].current_stock = a.pre.ingredients[a.id].current_stock
        /\ inventory_logs = a.pre.inventory_logs \o
              <<LogRow(a.id, 10, <<"restock">>), LogRow(a.id, -10, <<"correction">>)>>

\* Line k of the request's recipe names an ingredient that has no row.
LineMissing(q, k) == ~HasRow(q.pre.ingredients, RecipeOf(q)[k].ingredientId)

\* The last two answers are to the same sale request (product_id and qty),
\* issued twice in a row with nothing in between, and the request was
\* infeasible when first issued: some recipe line's ingredient was short or
\* missing.
InfeasibleSaleRepeated ==
  /\ AllIdle
  /\ Len(responses) >= 2
  /\ LET a == responses[Len(responses) - 1].request
         b == Last.request
     IN  /\ a.kind = "sale" /\ b.kind = "sale"
         /\ b.seq = a.seq + 1
         /\ a.product_id = b.product_id /\ a.qty = b.qty
         /\ HasRow(a.pre.products, a.product_id)
         /\ \E k \in DOMAIN RecipeOf(a) : LineShort(a, k) \/ LineMissing(a, k)

\* C11: the same infeasible sale issued twice in a row gets the same error
\* response, naming the same ingredient, both times, and the tables after
\* the second attempt are those before the first.
C11_RepeatedInfeasibleSaleIsIdempotent ==
  InfeasibleSaleRepeated =>
    LET first == responses[Len(responses) - 1]
    IN  /\ first.response.status = 400
        /\ Last.response = first.response
        /\ TablesAsBefore(first.request)
        /\ Last.request.pre = first.request.pre

\* C11 witness: a sale short of an ingredient has been refused twice in a
\* row, with the ingredient's name in both answers.
C11_Witness ==
  /\ InfeasibleSaleRepeated
  /\ Last.response.status = 400
  /\ Last.response.ingredient = "Chocolate Syrup"
  /\ responses[Len(responses) - 1].response.ingredient = "Chocolate Syrup"

\* C12: a sale of a product id that has no row is answered 404 'Product
\* not found' by the product lookup itself, before any ingredient is read,
\* and leaves the stocks, the inventory log and the sales as they were.
C12_UnknownProductIs404 ==
  (SaleAnswered /\ ~HasRow(Last.request.pre.products, Last.request.product_id))
    => /\ Last.response.status = 404
       /\ Last.response.error = "Product not found"
       /\ Last.request.pc = "getProduct"
       /\ Last.request.i = 0
       /\ TablesAsBefore(Last.request)

\* C12 witness: a sale of a product id with no row has been answered.
C12_Witness ==
  /\ SaleAnswered
  /\ ~HasRow(Last.request.pre.products, Last.request.product_id)
  /\ Last.request.qty > 0
  /\ Last.response.status = 404

\* The first line of the request's recipe, in recipe order, whose ingredient
\* was short or missing when the request arrived.
Blocked(q, k) == LineShort(q, k) \/ LineMissing(q, k)

FirstBlocked(q) ==
  CHOOSE k \in DOMAIN RecipeOf(q) :
    Blocked(q, k) /\ \A j \in 1..(k - 1) : ~Blocked(q, j)

\* The sale request q found its product, and some line of its recipe names
\* an ingredient that has no row.
SomeLineMissing(q) ==
  /\ HasRow(q.pre.products, q.product_id)
  /\ \E k \in DOMAIN RecipeOf(q) : LineMissing(q, k)

\* C13 as stated: a sale whose recipe has a line naming an ingredient with
\* no row is answered 400 'Ingredient <id> missing' for that id and leaves
\* every table as it was.
C13_AsStated ==
  (SaleAnswered /\ SomeLineMissing(Last.request))
    => /\ Last.response.status = 400
       /\ Last.response.error = "Ingredient ${id} missing"
       /\ \E k \in DOMAIN RecipeOf(Last.request) :
             /\ LineMissing(Last.request, k)
             /\ RecipeOf(Last.request)[k].ingredientId = Last.response.id
       /\ TablesAsBefore(Last.request)

\* C13 amended: such a sale is answered 400 and leaves every table as it
\* was; the answer is 'Ingredient <id> missing' for that id when the line is
\* the first short or missing line in recipe order, and names the
\* ingredient of an earlier short line otherwise.
C13_MissingIngredientRejectsSale ==
  (SaleAnswered /\ SomeLineMissing(Last.request))
    => LET q == Last.request
           item == RecipeOf(q)[FirstBlocked(q)]
       IN  /\ Last.response.status = 400
           /\ TablesAsBefore(q)
           /\ LineMissing(q, FirstBlocked(q))
                => /\ Last.response.error = "Ingredient ${id} missing"
                   /\ Last.response.id = item.ingredientId
           /\ LineShort(q, FirstBlocked(q))
                => /\ Last.response.error = "Not enough stock for ingredient ${name}"
                   /\ Last.response.ingredient = q.pre.ingredients[item.ingredientId].name

\* C13 witness: a sale whose first recipe line was feasible and whose second
\* line names an ingredient with no row has been refused.
C13_Witness ==
  /\ SaleAnswered
  /\ SomeLineMissing(Last.request)
  /\ Last.request.qty > 0
  /\ LineFeasible(Last.request, 1)
  /\ LineMissing(Last.request, 2)
  /\ Last.response.status = 400
  /\ Last.response.id = 3

\* C14: an adjustment of an ingredient id that has no row is answered 404
\* 'Ingredient not found' and leaves every table as it was: no stock
\* changes and no inventory_logs row is appended.
C14_UnknownIngredientIs404 ==
  (AdjustAnswered /\ ~HasRow(Last.request.pre.ingredients, Last.request.id))
    => /\ Last.response.status = 404
       /\ Last.response.error = "Ingredient not found"
       /\ TablesAsBefore(Last.request)

\* C14 witness: an adjustment of an ingredient id with no row has been
\* answered.
C14_Witness ==
  /\ AdjustAnswered
  /\ ~HasRow(Last.request.pre.ingredients, Last.request.id)
  /\ Last.request.change = 10
  /\ Last.response.status = 404

\* No request is in flight and the last answer is that of a dashboard
\* summary or of a report.
LowStockAnswered ==
  /\ AllIdle
  /\ Len(responses) > 0
  /\ Last.request.kind \in {"summary", "report"}
  /\ Last.response.status = 200

\* current_stock <= reorder_level of table row id, read off the numbers:
\* by the integers when both are integers, else by sign, exponent and
\* significand (the numbers used are positive with the same exponent).
AtOrBelowLevel(row) ==
  LET c == row.current_stock
      l == row.reorder_level
  IN  CASE c.int /\ l.int -> c.n <= l.n
        [] c.int /\ ~l.int -> c.n <= 0
        [] ~c.int /\ l.int -> l.n >= 1
        [] OTHER -> c = l \/ NatLess(c.sig, l.sig)

\* C16: whatever current_stock and reorder_level the ingredients have, the
\* low-stock list of the dashboard summary (and of the report) holds
\* exactly the ingredients with current_stock <= reorder_level: one at its
\* level is in the list, one above it is not.
C16_LowStockIsAtOrBelowLevel ==
  LowStockAnswered =>
    /\ \A id \in DOMAIN ingredients :
          (\E k \in DOMAIN Last.response.low_stock : Last.response.low_stock[k] = id)
            <=> AtOrBelowLevel(ingredients[id])
    /\ \A j \in DOMAIN Last.response.low_stock, k \in DOMAIN Last.response.low_stock :
          j < k => Last.response.low_stock[j] < Last.response.low_stock[k]

\* C16 witness: the dashboard summary has listed an ingredient whose stock
\* equals its reorder level and left out one whose stock is above its level.
C16_Witness ==
  /\ LowStockAnswered
  /\ Last.request.kind = "summary"
  /\ ingredients[1].current_stock = ingredients[1].reorder_level
  /\ ingredients[2].current_stock = I(20)
  /\ Last.response.low_stock = <<1>>

\* The sequence old is a prefix of the sequence new.
IsPrefix(old, new) ==
  /\ Len(old) <= Len(new)
  /\ \A k \in DOMAIN old : new[k] = old[k]

\* C15: every step of every operation (creating an ingredient or a product,
\* adjust, recordSale, the dashboard summary, the report) leaves the rows
\* that inventory_logs and sales already hold in place and unchanged; rows
\* are only appended, so a sale's total_price stays as computed at sale time.
C15_LogsAndSalesAppendOnly ==
  [][IsPrefix(inventory_logs, inventory_logs') /\ IsPrefix(sales, sales')]_vars

\* C15 witness: a sale and then an adjustment were recorded, and the rows of
\* the sale are still in place after it.
C15_Witness ==
  /\ AllIdle
  /\ Len(responses) = 2
  /\ responses[1].request.kind = "sale" /\ responses[1].response.status = 200
  /\ responses[2].request.kind = "adjust" /\ responses[2].response.status = 200
  /\ Len(sales) = 1
  /\ Len(inventory_logs) = 3
  /\ inventory_logs[3].reason = <<"restock">>

\* How many log rows have been appended since the request q arrived.
Logged(q) == Len(inventory_logs) - Len(q.pre.inventory_logs)

\* The stocks are those the request q found, less the deductions of the
\* first m lines of its recipe.
DeductedThrough(q, m) ==
  \A id \in DOMAIN ingredients :
     ingredients[id].current_stock.n
       = q.pre.ingredients[id].current_stock.n
           - PerUnit(SubSeq(RecipeOf(q), 1, m), id) * q.qty

\* The check passes for every line of q's recipe on the stocks q found.
CheckPasses(q) ==
  \A k \in DOMAIN RecipeOf(q) : ~LineMissing(q, k) /\ ~LineShort(q, k)

\* Where a sale q in flight (run alone) stands: no sales row yet; the log
\* rows appended so far are those of the first n recipe lines, in order;
\* the stocks carry the deductions of the first n or n + 1 lines; and
\* nothing has been written unless the check passes for every line.
SaleInOrder(q) ==
  /\ sales = q.pre.sales
  /\ products = q.pre.products
  /\ IF ~HasRow(q.pre.products, q.product_id)
       THEN TablesAsBefore(q)
       ELSE LET n == Logged(q)
            IN  /\ n \in 0..Len(RecipeOf(q))
                /\ inventory_logs
                     = q.pre.inventory_logs \o SubSeq(ExpectedSaleLogs(q), 1, n)
                /\ \E m \in {n, n + 1} :
                      m <= Len(RecipeOf(q)) /\ DeductedThrough(q, m)
                /\ ~TablesAsBefore(q) => CheckPasses(q)

\* A step of a sale q in flight (run alone, qty not 0) writes in order: a
\* stock write is the deduction of the line after the last logged one; a log
\* row is appended only once that line's deduction is written; the sales
\* row is appended, and 200 answered, only once every line is deducted and
\* logged.
SaleStepInOrder(q) ==
  LET n == Logged(q)
      last == Len(RecipeOf(q))
  IN  /\ ingredients' # ingredients
         => /\ DeductedThrough(q, n)
            /\ n < last
            /\ ingredients' =
                 [ingredients EXCEPT ![RecipeOf(q)[n + 1].ingredientId].current_stock =
                    I(@.n - RecipeOf(q)[n + 1].qty * q.qty)]
            /\ inventory_logs' = inventory_logs
      /\ inventory_logs' # inventory_logs
         => /\ n < last
            /\ DeductedThrough(q, n + 1)
            /\ inventory_logs' = Append(inventory_logs, ExpectedSaleLogs(q)[n + 1])
      /\ sales' # sales
         => /\ n = last
            /\ DeductedThrough(q, last)
            /\ Len(responses') > 0
            /\ responses'[Len(responses')].response.status = 200
            /\ responses'[Len(responses')].request.seq = q.seq
      /\ (responses' # responses /\ responses'[Len(responses')].response.status = 200)
         => sales' = Append(q.pre.sales,
                            SaleRow(q.product_id, q.qty,
                                    q.pre.products[q.product_id].price * q.qty))

\* C17: within one sale the steps are ordered: nothing is written before
\* the check has passed for every recipe line; the commit pass deducts once
\* per line in recipe order, each stock update followed by its log row; the
\* sales row comes after the last line's deduction and log row, and the 200
\* answer after the sales row.
C17_SaleStepsInOrder ==
  /\ [](\A r \in Slots : req[r].kind = "sale" => SaleInOrder(req[r]))
  /\ [][\A r \in Slots :
          (req[r].kind = "sale" /\ req[r].qty # 0
           /\ HasRow(req[r].pre.products, req[r].product_id))
             => SaleStepInOrder(req[r])]_vars

\* C17 witness: a sale of a two-line recipe has written the deduction and
\* the log row of its first line and the deduction of its second line.
C17_Witness ==
  \E r \in Slots :
     /\ req[r].kind = "sale"
     /\ req[r].qty = 1
     /\ HasRow(req[r].pre.products, req[r].product_id)
     /\ Len(RecipeOf(req[r])) = 2
     /\ ~NamesTwice(RecipeOf(req[r]))
     /\ Logged(req[r]) = 1
     /\ DeductedThrough(req[r], 2)

\* The sum of the change values of the log rows that reference ingredient
\* id, added up in log order.
RECURSIVE SumOfChanges(_, _)
SumOfChanges(logs, id) ==
  IF logs = << >> THEN I(0)
  ELSE LET front == SubSeq(logs, 1, Len(logs) - 1)
           row == logs[Len(logs)]
       IN  IF row.ingredient_id = id
             THEN NumAdd(SumOfChanges(front, id), I(row.change))
             ELSE SumOfChanges(front, id)

\* No request is in flight, and every request so far is remembered: the
\* first remembered request found the tables as they were created.
AllRemembered == AllIdle /\ Len(responses) > 0 /\ started <= KeepResponses

\* C18: after any sequence of adjust and recordSale requests run one at a
\* time with no storage failure, each ingredient's current_stock equals its
\* stock at creation plus the sum of the change values of the log rows that
\* reference it.
C18_StockIsCreationPlusLoggedChanges ==
  AllRemembered =>
    \A id \in DOMAIN ingredients :
       ingredients[id].current_stock
         = NumAdd(responses[1].request.pre.ingredients[id].current_stock,
                  SumOfChanges(inventory_logs, id))

\* C19: a sale run alone that found its product is rejected exactly when
\* some recipe line is short or missing; the answer is then about the first
\* such line in recipe order: 'Ingredient <id> missing' with that line's
\* ingredient id when it is missing, 'Not enough stock for ingredient
\* <name>' with that ingredient's name when it is short; and the check loop
\* stopped at that line, so no later line was read.
C19_RejectedSaleNamesFirstBlockingLine ==
  (SaleAnswered /\ HasRow(Last.request.pre.products, Last.request.product_id))
    => LET q == Last.request
           k == FirstBlocked(q)
           item == RecipeOf(q)[k]
       IN  /\ Last.response.status # 200
                <=> \E j \in DOMAIN RecipeOf(q) : Blocked(q, j)
           /\ Last.response.status # 200
                => /\ Last.response.status = 400
                   /\ q.i = k
                   /\ IF LineMissing(q, k)
                        THEN /\ Last.response.error = "Ingredient ${id} missing"
                             /\ Last.response.id = item.ingredientId
                        ELSE /\ Last.response.error
                                  = "Not enough stock for ingredient ${name}"
                             /\ Last.response.ingredient
                                  = q.pre.ingredients[item.ingredientId].name

\* C19 witness: a sale whose first recipe line was short and whose second
\* line names an ingredient with no row has been refused with the name of
\* the first line's ingredient.
C19_Witness ==
  /\ SaleAnswered
  /\ HasRow(Last.request.pre.products, Last.request.product_id)
  /\ Len(RecipeOf(Last.request)) = 2
  /\ LineShort(Last.request, 1)
  /\ LineMissing(Last.request, 2)
  /\ Last.response.status = 400
  /\ Last.response.ingredient = "Chocolate Syrup"
  /\ Last.request.i = 1

\* The answered sale is of a product whose recipe has no lines, with a
\* positive qty.
EmptyRecipeSold ==
  /\ SaleAnswered
  /\ HasRow(Last.request.pre.products, Last.request.product_id)
  /\ RecipeOf(Last.request) = << >>
  /\ Last.request.qty > 0

\* C20: a sale of a product whose recipe has no lines, with positive qty,
\* succeeds whatever the stocks are, appends exactly one sales row with
\* total_price = price*qty, changes no ingredient's stock and appends no
\* log row.
C20_EmptyRecipeOnlyRecordsSale ==
  EmptyRecipeSold =>
    LET q == Last.request
        total == q.pre.products[q.product_id].price * q.qty
    IN  /\ Last.response.status = 200
        /\ Last.response.amount = total
        /\ sales = Append(q.pre.sales, SaleRow(q.product_id, q.qty, total))
        /\ ingredients = q.pre.ingredients
        /\ inventory_logs = q.pre.inventory_logs
        /\ products = q.pre.products

\* C20 witness: two units of a product with no recipe lines have been sold
\* while an ingredient's stock was below zero.
C20_Witness ==
  /\ EmptyRecipeSold
  /\ Last.request.qty = 2
  /\ Last.response.status = 200
  /\ Len(sales) = Len(Last.request.pre.sales) + 1
  /\ \E id \in DOMAIN ingredients : ingredients[id].current_stock.n < 0

\* The figures are those of the first n rows of the sales history.
FiguresOf(response, n) ==
  LET snapshot == SubSeq(sales, 1, n)
  IN  /\ response.revenue = SumTotalPrice(snapshot)
      /\ response.sales_count = Len(snapshot)
      /\ response.total_tubs = SumQty(snapshot)

\* C21: the figures of one dashboard summary describe one and the same set
\* of sales rows: the history is append-only, so there is a length n, between
\* the history's length when the request arrived and its length now, such
\* that revenue, sales_count and total_tubs are those of the first n rows;
\* also when a sale commits its sales row between the handler's reads.
\* (Stated for histories whose rows all have a positive qty.)
C21_SummaryFiguresFromOneSnapshot ==
  (/\ Len(responses) > 0
   /\ Last.request.kind = "summary"
   /\ Last.response.status = 200
   /\ \A k \in DOMAIN sales : sales[k].qty > 0)
    => \E n \in Len(Last.request.pre.sales)..Len(sales) : FiguresOf(Last.response, n)

\* The place of a sale in flight in the order of its handler's awaits:
\* the product read, then one read per recipe line of the check loop, then
\* read, stock write and log row per recipe line of the commit loop, then
\* the sales row.
Rank(q) ==
  LET lines == Len(q.product.recipe)
  IN  CASE q.pc = "getProduct"  -> 0
        [] q.pc = "checkIng"    -> q.i
        [] q.pc = "deductIng"   -> lines + 3 * (q.i - 1) + 1
        [] q.pc = "updateStock" -> lines + 3 * (q.i - 1) + 2
        [] q.pc = "insertLog"   -> lines + 3 * (q.i - 1) + 3
        [] q.pc = "insertSale"  -> 4 * lines + 1

\* A step in which the request in slot r stays in flight moves it forward in
\* the order of its awaits, within the recipe's lines: no await, hence no
\* recipe line of either loop, is visited twice.
MovesForward(r) ==
  (req[r].pc # "idle" /\ req'[r].pc # "idle" /\ req'[r] # req[r])
    => /\ req'[r].seq = req[r].seq
       /\ Rank(req'[r]) > Rank(req[r])
       /\ req'[r].pc \in {"checkIng", "deductIng", "updateStock", "insertLog"}
            => req'[r].i \in 1..Len(req'[r].product.recipe)

\* A step in which the request in slot r leaves its handler sends its one
\* response, 404, 400, 200 or 500; and responses are sent in no other step.
AnswersOnce ==
  /\ \A r \in Slots :
        (req[r].pc # "idle" /\ req'[r].pc = "idle")
          => /\ Len(responses') > 0
             /\ responses'[Len(responses')].request = req[r]
             /\ responses'[Len(responses')].response.status \in {404, 400, 200, 500}
             /\ responses' = Remember(responses, responses'[Len(responses')])
  /\ responses' # responses
        => \E r \in Slots : req[r].pc # "idle" /\ req'[r].pc = "idle"

\* A request that has been answered is in flight no more, and no request
\* has two answers.
AnsweredIsOver ==
  /\ \A r \in Slots, k \in DOMAIN responses :
        req[r].pc # "idle" => responses[k].request.seq # req[r].seq
  /\ \A j \in DOMAIN responses, k \in DOMAIN responses :
        responses[j].request.seq = responses[k].request.seq => j = k

\* C22: when every awaited storage operation eventually completes, with a
\* result or with an error, every sale request eventually sends exactly one
\* response (404, 400, 200 or 500) and is over after it, and its check loop
\* and its commit loop visit every recipe line at most once.
C22_EverySaleIsAnsweredOnce ==
  /\ \A r \in Slots : (req[r].pc # "idle") ~> (req[r].pc = "idle")
  /\ [][AnswersOnce /\ \A r \in Slots : MovesForward(r)]_vars
  /\ []AnsweredIsOver

\* C22 witness: both sales have been answered, one of them 200 after its
\* commit loop went through two recipe lines, the other 500.
C22_Witness ==
  /\ AllIdle
  /\ Len(responses) = 2
  /\ \E j \in 1..2, k \in 1..2 :
        /\ responses[j].response.status = 200
        /\ responses[j].request.kind = "sale"
        /\ Len(responses[j].request.product.recipe) = 2
        /\ responses[k].response.status = 500
        /\ responses[k].request.kind = "sale"

=====================
